---- MODULE Spec2Model ----
(***************************************************************************)
(* Model of the matching engine of the agriculture job board              *)
(* (src/matching_engine.py) over the record store of src/database.py.     *)
(*                                                                         *)
(* Strings are sequences of one-character strings.  Python floats are     *)
(* IEEE-754 binary64 values, modelled bit-exactly for the non-negative    *)
(* normal range the engine uses: a float is [m |-> mantissa, e |-> exp]   *)
(* with value m * 2^e, the mantissa being a 53-bit natural held as        *)
(* little-endian limbs of LimbBits bits (TLC integers are 32 bits wide).  *)
(***************************************************************************)
EXTENDS Integers, Sequences, FiniteSets, TLC

\* ------------------------------------------------------------------------
\* Arbitrary-size naturals (limb sequences, least significant limb first)
\* ------------------------------------------------------------------------

LimbBits == 13

RECURSIVE Pow2(_)
Pow2(n) == IF n = 0 THEN 1 ELSE 2 * Pow2(n - 1)

LimbBase == Pow2(LimbBits)

RECURSIVE BigNorm(_)
BigNorm(a) ==
    IF a = <<>> THEN <<>>
    ELSE IF a[Len(a)] = 0 THEN BigNorm(SubSeq(a, 1, Len(a) - 1))
    ELSE a

BigLimb(a, i) == IF i >= 1 /\ i <= Len(a) THEN a[i] ELSE 0

RECURSIVE BigOfInt(_)
BigOfInt(n) == IF n = 0 THEN <<>> ELSE <<n % LimbBase>> \o BigOfInt(n \div LimbBase)

RECURSIVE BigToInt(_)
BigToInt(a) == IF a = <<>> THEN 0 ELSE a[1] + LimbBase * BigToInt(Tail(a))

RECURSIVE BigAddFrom(_, _, _, _)
BigAddFrom(a, b, i, carry) ==
    IF i > Len(a) /\ i > Len(b)
    THEN IF carry = 0 THEN <<>> ELSE <<carry>>
    ELSE LET s == BigLimb(a, i) + BigLimb(b, i) + carry
         IN  <<s % LimbBase>> \o BigAddFrom(a, b, i + 1, s \div LimbBase)

BigAdd(a, b) == BigNorm(BigAddFrom(a, b, 1, 0))

\* a - b for a >= b
RECURSIVE BigSubFrom(_, _, _, _)
BigSubFrom(a, b, i, borrow) ==
    IF i > Len(a) THEN <<>>
    ELSE LET d == BigLimb(a, i) - BigLimb(b, i) - borrow
         IN  IF d < 0
             THEN <<d + LimbBase>> \o BigSubFrom(a, b, i + 1, 1)
             ELSE <<d>> \o BigSubFrom(a, b, i + 1, 0)

BigSub(a, b) == BigNorm(BigSubFrom(a, b, 1, 0))

\* -1, 0, 1 as a < b, a = b, a > b (both normalised)
RECURSIVE BigCmpFrom(_, _, _)
BigCmpFrom(a, b, i) ==
    IF i = 0 THEN 0
    ELSE IF a[i] < b[i] THEN -1
    ELSE IF a[i] > b[i] THEN 1
    ELSE BigCmpFrom(a, b, i - 1)

BigCmp(a, b) ==
    IF Len(a) < Len(b) THEN -1
    ELSE IF Len(a) > Len(b) THEN 1
    ELSE BigCmpFrom(a, b, Len(a))

\* column k (0-based) of the schoolbook product: sum of a[i+1]*b[k-i+1]
RECURSIVE BigMulCol(_, _, _, _)
BigMulCol(a, b, k, i) ==
    IF i >= Len(a) \/ i > k THEN 0
    ELSE BigLimb(a, i + 1) * BigLimb(b, k - i + 1) + BigMulCol(a, b, k, i + 1)

RECURSIVE BigMulFrom(_, _, _, _)
BigMulFrom(a, b, k, carry) ==
    IF k > Len(a) + Len(b) - 2
    THEN BigOfInt(carry)
    ELSE LET col == BigMulCol(a, b, k, 0)
             lo  == (col % LimbBase) + (carry % LimbBase)
             hi  == (col \div LimbBase) + (carry \div LimbBase) + (lo \div LimbBase)
         IN  <<lo % LimbBase>> \o BigMulFrom(a, b, k + 1, hi)

BigMul(a, b) ==
    IF a = <<>> \/ b = <<>> THEN <<>> ELSE BigNorm(BigMulFrom(a, b, 0, 0))

RECURSIVE IntBitLen(_)
IntBitLen(n) == IF n = 0 THEN 0 ELSE 1 + IntBitLen(n \div 2)

BigBitLen(a) ==
    IF a = <<>> THEN 0 ELSE LimbBits * (Len(a) - 1) + IntBitLen(a[Len(a)])

RECURSIVE BigShlBits(_, _, _, _)
BigShlBits(a, r, i, carry) ==
    IF i > Len(a) THEN <<carry>>
    ELSE LET v == a[i] * Pow2(r) + carry
         IN  <<v % LimbBase>> \o BigShlBits(a, r, i + 1, v \div LimbBase)

\* a * 2^n
BigShl(a, n) ==
    IF a = <<>> THEN <<>>
    ELSE [i \in 1..(n \div LimbBits) |-> 0]
         \o BigNorm(BigShlBits(a, n % LimbBits, 1, 0))

\* floor(a / 2^n)
BigShr(a, n) ==
    LET q == n \div LimbBits
        r == n % LimbBits
    IN  IF q >= Len(a) THEN <<>>
        ELSE BigNorm([i \in 1..(Len(a) - q) |->
                 (a[i + q] \div Pow2(r))
                 + (BigLimb(a, i + q + 1) % Pow2(r)) * Pow2(LimbBits - r)])

\* quotient and remainder of a by a small positive integer d
BigDivStep(rest, digit) == [q |-> Append(rest.q, digit), r |-> rest.r]

RECURSIVE BigDivSmallFrom(_, _, _, _)
BigDivSmallFrom(a, d, i, rem) ==
    IF i = 0 THEN [q |-> <<>>, r |-> rem]
    ELSE BigDivStep(BigDivSmallFrom(a, d, i - 1, (rem * LimbBase + a[i]) % d),
                    (rem * LimbBase + a[i]) \div d)

BigDivNorm(res) == [q |-> BigNorm(res.q), r |-> res.r]

BigDivSmall(a, d) == BigDivNorm(BigDivSmallFrom(a, d, Len(a), 0))

\* ------------------------------------------------------------------------
\* binary64 arithmetic, round-to-nearest-even (non-negative, normal range)
\* ------------------------------------------------------------------------

MantBits == 53

FZero == [m |-> <<>>, e |-> 0]

\* bit k (0-based) of n
BigBit(n, k) == (BigLimb(n, (k \div LimbBits) + 1) \div Pow2(k % LimbBits)) % 2

\* some bit of n below bit k is set
BigLowBits(n, k) ==
    \/ \E i \in 1..(k \div LimbBits) : BigLimb(n, i) # 0
    \/ BigLimb(n, (k \div LimbBits) + 1) % Pow2(k % LimbBits) # 0

\* round to nearest, ties to even: the s bits cut from n are more than half
\* a unit, or exactly half and the kept mantissa is odd
FRoundsUp(n, s, sticky) ==
    /\ BigBit(n, s - 1) = 1
    /\ (BigLowBits(n, s - 1) \/ sticky \/ BigBit(n, s) = 1)

\* a mantissa that the increment carried to 2^MantBits is renormalised
FNormal(m, e) ==
    IF BigBit(m, MantBits) = 1 THEN [m |-> BigShr(m, 1), e |-> e + 1] ELSE [m |-> m, e |-> e]

FRoundLen(n, e, sticky, len) ==
    IF len = 0 THEN FZero
    ELSE IF len <= MantBits
    THEN [m |-> BigShl(n, MantBits - len), e |-> e - (MantBits - len)]
    ELSE FNormal(IF FRoundsUp(n, len - MantBits, sticky)
                 THEN BigAdd(BigShr(n, len - MantBits), <<1>>)
                 ELSE BigShr(n, len - MantBits),
                 e + (len - MantBits))

\* the float nearest to n * 2^e (+ a non-zero fraction below the last bit
\* of n when sticky); ties go to the even mantissa
FRound(n, e, sticky) == FRoundLen(n, e, sticky, BigBitLen(n))

FOfInt(n) == FRound(BigOfInt(n), 0, FALSE)

FMin2(x, y) == IF x < y THEN x ELSE y

FAdd(a, b) ==
    IF a.m = <<>> THEN b
    ELSE IF b.m = <<>> THEN a
    ELSE FRound(BigAdd(BigShl(a.m, a.e - FMin2(a.e, b.e)), BigShl(b.m, b.e - FMin2(a.e, b.e))),
                FMin2(a.e, b.e), FALSE)

\* a - b for a >= b
FSub(a, b) ==
    IF b.m = <<>> THEN a
    ELSE FRound(BigSub(BigShl(a.m, a.e - FMin2(a.e, b.e)), BigShl(b.m, b.e - FMin2(a.e, b.e))),
                FMin2(a.e, b.e), FALSE)

FMul(a, b) ==
    IF a.m = <<>> \/ b.m = <<>> THEN FZero
    ELSE FRound(BigMul(a.m, b.m), a.e + b.e, FALSE)

GuardBits == 65

FDivRound(res, e) == FRound(res.q, e, res.r # 0)

\* a / d for a small positive integer d (exact as a float)
FDivInt(a, d) ==
    IF a.m = <<>> THEN FZero
    ELSE FDivRound(BigDivSmall(BigShl(a.m, GuardBits), d), a.e - GuardBits)

\* -1, 0, 1 as a < b, a = b, a > b
FCmp(a, b) ==
    IF a.m = <<>> THEN (IF b.m = <<>> THEN 0 ELSE -1)
    ELSE IF b.m = <<>> THEN 1
    ELSE IF a.e < b.e THEN -1
    ELSE IF a.e > b.e THEN 1
    ELSE BigCmp(a.m, b.m)

FLe(a, b) == FCmp(a, b) <= 0
FLt(a, b) == FCmp(a, b) < 0
FMax(a, b) == IF FLt(a, b) THEN b ELSE a
FMin(a, b) == IF FLt(b, a) THEN b ELSE a

\* Python's round(x) on a float below 2^31: nearest integer, ties to even
FRoundToInt(a) ==
    IF a.m = <<>> THEN 0
    ELSE IF a.e >= 0 THEN BigToInt(BigShl(a.m, a.e))
    ELSE BigToInt(BigShr(a.m, 0 - a.e))
         + (IF FRoundsUp(a.m, 0 - a.e, FALSE) THEN 1 ELSE 0)

\* the float a decimal literal p/q denotes (correctly rounded)
FLit(p, q) == FDivInt(FOfInt(p), q)

F0   == FZero
F1   == FOfInt(1)
F05  == FLit(5, 10)

\* ------------------------------------------------------------------------
\* Python strings: sequences of one-character strings
\* ------------------------------------------------------------------------

IsSpace(c) == c = " "

LowerChar(c) ==
    CASE c = "A" -> "a"
      [] c = "B" -> "b"
      [] c = "K" -> "k"
      [] c = "N" -> "n"
      [] c = "R" -> "r"
      [] OTHER   -> c

lower(s) == [i \in 1..Len(s) |-> LowerChar(s[i])]

RECURSIVE lstrip(_)
lstrip(s) == IF s # <<>> /\ IsSpace(Head(s)) THEN lstrip(Tail(s)) ELSE s

RECURSIVE rstrip(_)
rstrip(s) ==
    IF s # <<>> /\ IsSpace(s[Len(s)]) THEN rstrip(SubSeq(s, 1, Len(s) - 1)) ELSE s

strip(s) == lstrip(rstrip(s))

\* s.split(sep) for a one-character separator: "" splits into [""]
RECURSIVE SplitFrom(_, _, _, _)
SplitFrom(s, sep, i, cur) ==
    IF i > Len(s) THEN <<cur>>
    ELSE IF s[i] = sep THEN <<cur>> \o SplitFrom(s, sep, i + 1, <<>>)
    ELSE SplitFrom(s, sep, i + 1, Append(cur, s[i]))

split(s, sep) == SplitFrom(s, sep, 1, <<>>)

\* s.split(): split on runs of whitespace, no empty words
RECURSIVE SplitWsFrom(_, _, _)
SplitWsFrom(s, i, cur) ==
    IF i > Len(s) THEN (IF cur = <<>> THEN <<>> ELSE <<cur>>)
    ELSE IF IsSpace(s[i])
    THEN (IF cur = <<>> THEN <<>> ELSE <<cur>>) \o SplitWsFrom(s, i + 1, <<>>)
    ELSE SplitWsFrom(s, i + 1, Append(cur, s[i]))

split_ws(s) == SplitWsFrom(s, 1, <<>>)

\* sub in s
contains(sub, s) ==
    \E i \in 0..(Len(s) - Len(sub)) : SubSeq(s, i + 1, i + Len(sub)) = sub

SeqToSet(q) == {q[i] : i \in 1..Len(q)}

\* ------------------------------------------------------------------------
\* float(text) for the characters of the model: [sign] digits [. digits]
\* The value is kept exactly, in hundredths (the inputs of the model carry
\* at most two decimals; a coordinate is a pair of hundredths of a degree).
\* ------------------------------------------------------------------------

Digits == {"0", "1", "2", "3", "4", "5", "6", "7", "8", "9"}

DigitVal(c) ==
    CASE c = "0" -> 0 [] c = "1" -> 1 [] c = "2" -> 2 [] c = "3" -> 3
      [] c = "4" -> 4 [] c = "5" -> 5 [] c = "6" -> 6 [] c = "7" -> 7
      [] c = "8" -> 8 [] c = "9" -> 9

RECURSIVE DigitsVal(_)
DigitsVal(s) ==
    IF s = <<>> THEN 0 ELSE DigitsVal(SubSeq(s, 1, Len(s) - 1)) * 10 + DigitVal(s[Len(s)])

AllDigits(s) == \A i \in 1..Len(s) : s[i] \in Digits

NoFloat == [ok |-> FALSE, v |-> 0]

FloatValue(neg, mag) == [ok |-> TRUE, v |-> IF neg THEN 0 - mag ELSE mag]

\* integer part ip and fraction part fp of the literal
FloatDigits(neg, ip, fp) ==
    IF ~AllDigits(ip) \/ ~AllDigits(fp) \/ (ip = <<>> /\ fp = <<>>)
    THEN NoFloat
    ELSE FloatValue(neg, DigitsVal(ip) * 100 + DigitsVal(SubSeq(fp \o <<"0", "0">>, 1, 2)))

\* ps: the literal without its sign, split at "."
FloatParts(neg, ps) ==
    IF Len(ps) > 2 THEN NoFloat
    ELSE FloatDigits(neg, ps[1], IF Len(ps) = 2 THEN ps[2] ELSE <<>>)

FloatSigned(s) ==
    IF s # <<>> /\ s[1] \in {"-", "+"}
    THEN FloatParts(s[1] = "-", split(Tail(s), "."))
    ELSE FloatParts(FALSE, split(s, "."))

\* float(t): ValueError is ok = FALSE
float(t) == FloatSigned(strip(t))

\* ------------------------------------------------------------------------
\* src/matching_engine.py utilities
\* ------------------------------------------------------------------------

None == [ok |-> FALSE, lat |-> 0, lon |-> 0]

LatLon(lat, lon) ==
    IF lat.ok /\ lon.ok THEN [ok |-> TRUE, lat |-> lat.v, lon |-> lon.v] ELSE None

\* a parse that takes the first two of three or more parts
LatLonOfFirstParts(parts) ==
    IF Len(parts) < 2 THEN None
    ELSE LatLon(float(strip(parts[1])), float(strip(parts[2])))

\* parts = location.split(','), each part stripped before float()
LatLonOfParts(parts) ==
    IF Len(parts) # 2 THEN None
    ELSE LatLon(float(strip(parts[1])), float(strip(parts[2])))

parse_latlon(location) ==
    IF location = <<>> THEN None ELSE LatLonOfParts(split(location, ","))

\* parse_latlon on any argument: not isinstance(location, str) gives None
ParseValue(value) == IF value.kind # "str" THEN None ELSE parse_latlon(value.text)

Abs(x) == IF x < 0 THEN 0 - x ELSE x

\* metres of great circle per hundredth of a degree: 6371 km * pi / 180 / 100
MetresPerCentiDeg1000 == 1111949

\* haversine_km in whole metres.  For two points on one meridian, and for
\* two points on the equator, the formula reduces to r * angle; the
\* coordinates of the model lie on the meridian 0 or on the equator, where
\* the angle is the sum of the two differences (one of them is 0).
HaversineMetres(a, b) ==
    (MetresPerCentiDeg1000 * (Abs(a.lon - b.lon) + Abs(a.lat - b.lat))) \div 1000

haversine_km(a, b) == FDivInt(FOfInt(HaversineMetres(a, b)), 1000)

normalize_skill(s) == lower(strip(s))

NormalizeAll(kept) == [i \in 1..Len(kept) |-> normalize_skill(kept[i])]

\* [normalize_skill(s) for s in str(text).split(',') if s.strip()]
SkillList(text) == NormalizeAll(SelectSeq(split(text, ","), LAMBDA x : strip(x) # <<>>))

F03 == FLit(3, 10)
F07 == FLit(7, 10)
F08 == FLit(8, 10)

IntMax(x, y) == IF x > y THEN x ELSE y

\* the common-words arm: min(0.7, len(common_words) / max_words), else 0.3
MatchWords(words1, words2) ==
    IF words1 # {} /\ words2 # {} /\ words1 \cap words2 # {}
    THEN FMin(F07, FDivInt(FOfInt(Cardinality(words1 \cap words2)),
                           IntMax(Cardinality(words1), Cardinality(words2))))
    ELSE F03

\* the arms without the containment arm
MatchLowerNoContain(loc1_lower, loc2_lower) ==
    IF loc1_lower = loc2_lower THEN F1
    ELSE MatchWords(SeqToSet(split_ws(loc1_lower)), SeqToSet(split_ws(loc2_lower)))

\* the arms on the stripped, lower-cased strings
MatchLower(loc1_lower, loc2_lower) ==
    IF loc1_lower = loc2_lower THEN F1
    ELSE IF contains(loc1_lower, loc2_lower) \/ contains(loc2_lower, loc1_lower)
    THEN F08
    ELSE MatchWords(SeqToSet(split_ws(loc1_lower)), SeqToSet(split_ws(loc2_lower)))

match_location_text(loc1, loc2) ==
    IF loc1 = <<>> \/ loc2 = <<>> THEN F05
    ELSE MatchLower(lower(strip(loc1)), lower(strip(loc2)))

\* ------------------------------------------------------------------------
\* MatchingEngine._score_match
\* A reason is modelled by its fixed text; the numbers formatted into it
\* are the fields of the result.
\* ------------------------------------------------------------------------

F10  == FOfInt(10)
F100 == FOfInt(100)

w_skill == FLit(60, 100)
w_prox  == FLit(30, 100)
w_avail == FLit(10, 100)

\* 1 - ((dist - 10) / 90), the arm for 10 < dist <= 100
ProxLinear(dist) == FSub(F1, FDivInt(FSub(dist, F10), 90))

\* the soft scale of the distance: <= 10 km -> 1.0, <= 100 km -> linear, else 0
ProxOfDistance(dist) ==
    IF FLe(dist, F10) THEN F1
    ELSE IF FLe(dist, F100) THEN ProxLinear(dist)
    ELSE F0

\* skill score and its reason
SkillScore(job_required, worker_skills) ==
    IF job_required = <<>>
    THEN [score |-> F05, reasons |-> <<"no required skills (neutral)">>]
    ELSE [score   |-> FDivInt(FOfInt(Cardinality(SeqToSet(job_required)
                                                    \cap SeqToSet(worker_skills))),
                              Len(job_required)),
          reasons |-> <<"skills matched">>]

\* the three proximity branches on the two raw strings and the two parsed
\* locations
ProxBranch(worker_loc_str, job_loc_str, worker_loc, job_loc_parsed) ==
    IF worker_loc.ok /\ job_loc_parsed.ok
    THEN [score   |-> ProxOfDistance(haversine_km(worker_loc, job_loc_parsed)),
          branch  |-> "distance",
          reasons |-> <<"distance", "proximity_score">>]
    ELSE IF worker_loc_str # <<>> /\ job_loc_str # <<>>
    THEN [score   |-> match_location_text(worker_loc_str, job_loc_str),
          branch  |-> "text",
          reasons |-> <<"location text match">>]
    ELSE [score   |-> F05,
          branch  |-> "neutral",
          reasons |-> <<"no location info (proximity neutral)">>]

\* proximity score, the branch taken and its reasons; job_loc is the
\* caller's pre-parsed location argument:
\* job_loc_parsed = job_loc if job_loc is not None else parse_latlon(job_loc_str)
ProxScore(job_loc, job_row, worker_row) ==
    ProxBranch(worker_row.location, job_row.location,
               parse_latlon(worker_row.location),
               IF job_loc # None THEN job_loc ELSE parse_latlon(job_row.location))

\* an availability bonus granted in both directions whatever the flag
AvailabilityBonusAlways(worker_row, inverse) ==
    [score |-> F1, reasons |-> IF inverse THEN <<>> ELSE <<"worker available">>]

\* availability bonus and its reasons
AvailabilityBonus(worker_row, inverse) ==
    IF ~inverse
    THEN IF worker_row.available # 0
         THEN [score |-> F1, reasons |-> <<"worker available">>]
         ELSE [score |-> F0, reasons |-> <<"worker not available">>]
    ELSE [score |-> F1, reasons |-> <<>>]

\* the weighted sum on the 0..100 scale
FinalScorePercent(skill_score, prox_score, availability_bonus) ==
    FMax(F0, FMin(F100,
        FAdd(FAdd(FMul(skill_score, FOfInt(60)), FMul(prox_score, FOfInt(30))),
             FMul(availability_bonus, FOfInt(10)))))

\* the weighted composition, clamped: max(0.0, min(1.0, score))
FinalScore(skill_score, prox_score, availability_bonus) ==
    FMax(F0, FMin(F1,
        FAdd(FAdd(FMul(skill_score, w_skill), FMul(prox_score, w_prox)),
             FMul(availability_bonus, w_avail))))

\* the returned (score, reasons) with the sub-scores it was composed from
Composed(sk, px, av) ==
    [score   |-> FinalScore(sk.score, px.score, av.score),
     skill   |-> sk.score,
     prox    |-> px.score,
     avail   |-> av.score,
     branch  |-> px.branch,
     reasons |-> sk.reasons \o px.reasons \o av.reasons \o <<"final_score">>]

\* _score_match(job_skills, job_loc, job_row, worker_row, inverse)
_score_match(job_skills, job_loc, job_row, worker_row, inverse) ==
    Composed(SkillScore(IF inverse THEN SkillList(job_row.skill_required) ELSE job_skills,
                        IF inverse THEN job_skills ELSE SkillList(worker_row.skills)),
             ProxScore(job_loc, job_row, worker_row),
             AvailabilityBonus(worker_row, inverse))

\* ------------------------------------------------------------------------
\* The record store (src/database.py) and the ranking calls
\* ------------------------------------------------------------------------

VARIABLES
    workers,    \* the workers table, in rowid order
    jobs,       \* the jobs table, in rowid order
    matches,    \* the matches table, in rowid order
    calls,      \* number of ranking calls made
    ret,        \* outcome of the last operation, when it was a ranking call:
                \* the scored pool, the returned list, the positions of the
                \* returned list whose INSERT raised, the number of matches
                \* rows at the start of the call, and whether the read of the
                \* pool went through
    probe,      \* one (job row, worker row) pair and its two scores
    callers,    \* the ranking calls in progress side by side: where each is in
                \* its method, the list it will return, the INSERT parameters
                \* of that list, and the match_id of each row it has inserted
    parsed,     \* one argument of parse_latlon and what the call returned
    job_seq,    \* the largest job_id ever given out (AUTOINCREMENT)
    req         \* the last job_management request: the operation, the status
                \* a post_job or update_job_status request carried, and
                \* whether the request was turned down

vars == <<workers, jobs, matches, calls, ret, probe, callers, parsed, job_seq, req>>

MaxTopN  == 3
MaxCalls == 1

\* skill strings
S_a   == <<"a">>
S_b   == <<"b">>
S_ab  == <<"a", ",", "b">>
S_aa  == <<"a", ",", "a">>
S_Ab  == <<" ", "A", " ", ",", "b">>
S_abk == <<"a", ",", "b", ",", "k">>

\* location strings
L_k     == <<"k">>
L_Kr    == <<"K", " ", "r">>
L_kr    == <<"k", " ", "r">>
L_rb    == <<"r", " ", "b">>
L_rk    == <<"r", " ", "k">>
L_krba  == <<"k", " ", "r", " ", "b", " ", "a">>
L_k0    == <<"k", " ", "0">>
L_sp    == <<" ">>
L_kcr   == <<"k", ",", "r">>
L_0_0   == <<"0", ",", "0">>
L_005_0 == <<"0", ".", "0", "5", ",", "0">>
L_05_0  == <<".", "5", ",", " ", "0">>
L_2_0   == <<"2", ",", "0">>

Statuses == {"open", "filled", "closed"}

\* a test that lets every status through
ValidStatusAny(status) == TRUE

\* status in ("open", "filled", "closed")
ValidStatus(status) == status \in {"open", "filled", "closed"}

\* str.lower() on the status texts of the model
StatusLower(status) ==
    CASE status = "OPEN"   -> "open"
      [] status = "Filled" -> "filled"
      [] OTHER             -> status

\* no job_management request made yet, or a ranking call made since
NoRequest == [op |-> "none", status |-> "", rejected |-> FALSE]

Request(op, status, rejected) == [op |-> op, status |-> status, rejected |-> rejected]

\* no call of parse_latlon made
NoParse == [input |-> [kind |-> "none", text |-> <<>>], out |-> <<>>]

NoCall == [op |-> "none", found |-> FALSE, anchor |-> 0, top_n |-> 0,
           scored |-> <<>>, top |-> <<>>, failed |-> {}, first |-> 0, read_ok |-> TRUE]

NoProbe == [job |-> [job_id |-> 0, skill_required |-> <<>>, location |-> <<>>, status |-> "open"],
            worker |-> [worker_id |-> 0, skills |-> <<>>, location |-> <<>>, available |-> 0],
            fwd |-> <<>>, inv |-> <<>>]

\* the callers of the side-by-side runs, none of them in a call yet
Callers == {1, 2}

NoCallers == [p \in Callers |-> [pc |-> "idle", res |-> NoCall, rows |-> <<>>,
                                 next |-> 1, ids |-> <<>>]]

\* the workers table without the availability filter
AllWorkerRows == workers

\* the jobs table without the status filter
AllJobRows == jobs

\* the available workers no matches row names yet
UnmatchedWorkers ==
    SelectSeq(workers, LAMBDA w : /\ w.available = 1
                                  /\ \A i \in 1..Len(matches) :
                                         matches[i].worker_id # w.worker_id)

\* a read that hands back the rows fetched before the error
FetchAllPartial(rows, read_ok) == IF read_ok THEN rows ELSE SubSeq(rows, 1, FMin2(1, Len(rows)))

\* database.fetch_all: the rows of the query, or [] when the read raises
fetch_all(rows, read_ok) == IF read_ok THEN rows ELSE <<>>

\* fetch_all("SELECT * FROM workers WHERE available=1")
_get_all_workers == SelectSeq(workers, LAMBDA w : w.available = 1)

\* fetch_all("SELECT * FROM jobs WHERE status='open'")
_get_all_jobs == SelectSeq(jobs, LAMBDA j : j.status = "open")

\* an insertion that puts a candidate before the earlier ones of equal score
RECURSIVE InsertDescTiesFirst(_, _)
InsertDescTiesFirst(sorted, x) ==
    IF sorted = <<>> THEN <<x>>
    ELSE IF FLe(sorted[Len(sorted)].score, x.score)
    THEN Append(InsertDescTiesFirst(SubSeq(sorted, 1, Len(sorted) - 1), x), sorted[Len(sorted)])
    ELSE Append(sorted, x)

\* list.sort(key=score, reverse=True): stable, descending
RECURSIVE InsertDesc(_, _)
InsertDesc(sorted, x) ==
    IF sorted = <<>> THEN <<x>>
    ELSE IF FLt(sorted[Len(sorted)].score, x.score)
    THEN Append(InsertDesc(SubSeq(sorted, 1, Len(sorted) - 1), x), sorted[Len(sorted)])
    ELSE Append(sorted, x)

\* a ranking that leaves the candidates in pool order
SortForgotten(scored) == scored

SortByScoreDesc(scored) ==
    LET F[i \in 0..Len(scored)] ==
            IF i = 0 THEN <<>> ELSE InsertDesc(F[i - 1], scored[i])
    IN  F[Len(scored)]

\* a slice that stops one short
SliceShort(q, n) == SubSeq(q, 1, FMin2(n, Len(q)) - 1)

\* scored[:top_n] for top_n >= 0
SliceTo(q, n) == SubSeq(q, 1, FMin2(n, Len(q)))

\* a rounding that forgets the scaling to a percentage
ScorePercentUnit(score) == FRoundToInt(score)

\* int(round(score * 100))
ScorePercent(score) == FRoundToInt(FMul(score, F100))

\* one scored candidate of a ranking: the result dictionary
Scored(id, row, sm) ==
    [id |-> id, row |-> row, score |-> sm.score, skill |-> sm.skill, prox |-> sm.prox,
     avail |-> sm.avail, branch |-> sm.branch, reasons |-> sm.reasons]

\* the loop body of match_job_to_workers for worker row w
ScoreWorkerForJob(job_row, w) ==
    _score_match(SkillList(job_row.skill_required), parse_latlon(job_row.location),
                 job_row, w, FALSE)

\* the loop body of match_worker_to_jobs for job row j
ScoreJobForWorker(worker_row, j) ==
    _score_match(SkillList(worker_row.skills), parse_latlon(worker_row.location),
                 j, worker_row, TRUE)

\* scored.sort(...); top = scored[:top_n]; return top
Ranked(op, anchor, top_n, scored) ==
    [op |-> op, found |-> TRUE, anchor |-> anchor, top_n |-> top_n,
     scored |-> scored, top |-> SliceTo(SortByScoreDesc(scored), top_n),
     failed |-> {}, first |-> 0, read_ok |-> TRUE]

\* the scored list of the workers pool, in pool order
ScoredWorkers(job_row, pool) ==
    <<>> \o [i \in 1..Len(pool) |->
        Scored(pool[i].worker_id, pool[i], ScoreWorkerForJob(job_row, pool[i]))]

\* the scored list of the jobs pool, in pool order
ScoredJobs(worker_row, pool) ==
    <<>> \o [i \in 1..Len(pool) |->
        Scored(pool[i].job_id, pool[i], ScoreJobForWorker(worker_row, pool[i]))]

\* the parameters of the INSERT statements of match_job_to_workers
JobMatchRows(job_row, top) ==
    <<>> \o [i \in 1..Len(top) |->
        [job_id |-> job_row.job_id, worker_id |-> top[i].id,
         match_score |-> ScorePercent(top[i].score)]]

\* the parameters of the INSERT statements of match_worker_to_jobs
WorkerMatchRows(worker_row, top) ==
    <<>> \o [i \in 1..Len(top) |->
        [job_id |-> top[i].id, worker_id |-> worker_row.worker_id,
         match_score |-> ScorePercent(top[i].score)]]

\* a loop that ends at the first INSERT that raises
InsertedRowsAbort(rows, failed) ==
    SubSeq(rows, 1, Cardinality({i \in 1..Len(rows) : \A k \in 1..i : k \notin failed}))

\* for r in top: try: execute_query(INSERT ...) except Exception: pass
\* the rows that reach the table, in loop order; failed holds the positions
\* at which execute_query raised
InsertedRows(rows, failed) ==
    LET F[i \in 0..Len(rows)] ==
            IF i = 0 THEN <<>>
            ELSE IF i \in failed THEN F[i - 1] ELSE Append(F[i - 1], rows[i])
    IN  F[Len(rows)]

\* a write that replaces the earlier rows of the same (job, worker, score)
UpsertRows(rows) ==
    SelectSeq(matches, LAMBDA m : \A i \in 1..Len(rows) : rows[i] # m) \o rows

\* a write keyed on (job_id, worker_id) that replaces the row of the pair
MergeRows(rows) ==
    SelectSeq(matches, LAMBDA m : \A i \in 1..Len(rows) :
                  ~(rows[i].job_id = m.job_id /\ rows[i].worker_id = m.worker_id)) \o rows

\* INSERT INTO matches: every row gets a fresh match_id, after the rows present
AppendRows(rows) == matches \o rows

\* a ranking call that also marks the jobs filled
StoreTablesFilled ==
    /\ workers' = workers
    /\ jobs' = [i \in 1..Len(jobs) |-> [jobs[i] EXCEPT !.status = "filled"]]

\* the engine issues SELECT on jobs and workers and nothing else
StoreTablesKept == UNCHANGED <<workers, jobs>>

\* the persistence loop over the returned list: rows holds the INSERT
\* parameters of the sorted candidates, of which the first top_n are the
\* returned ones
PersistMatches(res, rows, failed) ==
    /\ ret' = [res EXCEPT !.failed = failed \cap (1..Len(res.top)), !.first = Len(matches)]
    /\ matches' = AppendRows(InsertedRows(SliceTo(rows, res.top_n), failed))

\* database.fetch_one("SELECT * FROM jobs WHERE job_id = ?")
FetchJob(job_id) == SelectSeq(jobs, LAMBDA j : j.job_id = job_id)

\* database.fetch_one("SELECT * FROM workers WHERE worker_id = ?")
FetchWorker(worker_id) == SelectSeq(workers, LAMBDA w : w.worker_id = worker_id)

\* a missing anchor answered like an anchor with an empty pool
NotFoundAsEmpty(op, id, top_n) ==
    [op |-> op, found |-> TRUE, anchor |-> id, top_n |-> top_n,
     scored |-> <<>>, top |-> <<>>, failed |-> {}, first |-> Len(matches), read_ok |-> TRUE]

\* if not job: print("No job found with ID ..."); return
NotFound(op, id, top_n) ==
    [op |-> op, found |-> FALSE, anchor |-> id, top_n |-> top_n,
     scored |-> <<>>, top |-> <<>>, failed |-> {}, first |-> Len(matches), read_ok |-> TRUE]

TopNs == 0..MaxTopN

\* which INSERTs raise in a call that returns n results: none of them, the
\* k-th one, or all of them
FailSets(n) == {{}} \cup {{k} : k \in 1..n} \cup {1..n}

\* sort, slice, persist (each INSERT raising or not) and return, for one
\* scored pool; rows holds the INSERT parameters of the sorted candidates
RankAndPersist(op, anchor, scored, rows, read_ok) ==
    \E top_n \in TopNs : \E failed \in FailSets(FMin2(top_n, Len(scored))) :
        PersistMatches([Ranked(op, anchor, top_n, scored) EXCEPT !.read_ok = read_ok],
                       rows, failed)

\* MatchingEngine.match_job_to_workers(job_row, top_n) from the scored pool on
match_job_to_workers(job_row, scored, read_ok) ==
    RankAndPersist("match_job_to_workers", job_row.job_id, scored,
                   JobMatchRows(job_row, SortByScoreDesc(scored)), read_ok)

\* MatchingEngine.match_worker_to_jobs(worker_row, top_n) from the scored pool on
match_worker_to_jobs(worker_row, scored, read_ok) ==
    RankAndPersist("match_worker_to_jobs", worker_row.worker_id, scored,
                   WorkerMatchRows(worker_row, SortByScoreDesc(scored)), read_ok)

\* match_workers_to_job(job_id, top_n), the read of the pool going through
\* or not
WorkersForJob(job_id, read_ok) ==
    /\ calls' = calls + 1
    /\ IF FetchJob(job_id) = <<>>
       THEN /\ \E top_n \in TopNs : ret' = NotFound("match_job_to_workers", job_id, top_n)
            /\ UNCHANGED matches
       ELSE match_job_to_workers(FetchJob(job_id)[1],
                                 ScoredWorkers(FetchJob(job_id)[1],
                                               fetch_all(_get_all_workers, read_ok)),
                                 read_ok)
    /\ StoreTablesKept
    /\ req' = NoRequest
    /\ UNCHANGED <<probe, callers, parsed, job_seq>>

\* match_jobs_to_worker(worker_id, top_n), the read of the pool going through
\* or not
JobsForWorker(worker_id, read_ok) ==
    /\ calls' = calls + 1
    /\ IF FetchWorker(worker_id) = <<>>
       THEN /\ \E top_n \in TopNs : ret' = NotFound("match_worker_to_jobs", worker_id, top_n)
            /\ UNCHANGED matches
       ELSE match_worker_to_jobs(FetchWorker(worker_id)[1],
                                 ScoredJobs(FetchWorker(worker_id)[1],
                                            fetch_all(_get_all_jobs, read_ok)),
                                 read_ok)
    /\ StoreTablesKept
    /\ req' = NoRequest
    /\ UNCHANGED <<probe, callers, parsed, job_seq>>

\* match_workers_to_job(job_id, top_n) on a store whose reads go through
match_workers_to_job(job_id) == WorkersForJob(job_id, TRUE)

\* match_jobs_to_worker(worker_id, top_n) on a store whose reads go through
match_jobs_to_worker(worker_id) == JobsForWorker(worker_id, TRUE)

\* job_management.update_job_status(job_id, new_status)
update_job_status(job_id, new_status) ==
    /\ IF ~ValidStatus(StatusLower(new_status))
       THEN UNCHANGED jobs
       ELSE jobs' = [i \in 1..Len(jobs) |->
                        IF jobs[i].job_id = job_id
                        THEN [jobs[i] EXCEPT !.status = StatusLower(new_status)]
                        ELSE jobs[i]]
    /\ req' = Request("update_job_status", StatusLower(new_status),
                      ~ValidStatus(StatusLower(new_status)))
    /\ ret' = NoCall
    /\ UNCHANGED <<workers, matches, calls, probe, callers, parsed, job_seq>>

\* ------------------------------------------------------------------------
\* The engine over a persisted store
\* ------------------------------------------------------------------------

WorkerRow(id, w) ==
    [worker_id |-> id, skills |-> w.skills, location |-> w.location, available |-> w.available]

JobRow(id, j, status) ==
    [job_id |-> id, skill_required |-> j.skill_required, location |-> j.location,
     status |-> status]

W_full  == [skills |-> S_ab, location |-> L_0_0, available |-> 1]
W_part  == [skills |-> S_a,  location |-> L_k,   available |-> 1]
W_away  == [skills |-> S_ab, location |-> L_0_0, available |-> 0]
J_field == [skill_required |-> S_ab, location |-> L_005_0]
J_town  == [skill_required |-> S_a,  location |-> L_kr]

\* workers tables found in the database file at start
WorkerTables ==
    { <<WorkerRow(1, W_part), WorkerRow(2, W_full), WorkerRow(3, W_full)>>,
      <<WorkerRow(1, W_away), WorkerRow(2, W_full)>>,
      <<WorkerRow(1, W_away)>> }

\* jobs tables found in the database file at start
JobTables ==
    { <<JobRow(1, J_field, "open"), JobRow(2, J_town, "open")>>,
      <<JobRow(1, J_town, "filled")>> }

StatusInputs == Statuses \cup {"OPEN", "pending"}


Init ==
    /\ workers \in WorkerTables
    /\ jobs \in JobTables
    /\ matches = <<>>
    /\ calls = 0
    /\ ret = NoCall
    /\ probe = NoProbe
    /\ callers = NoCallers
    /\ parsed = NoParse
    /\ job_seq = Len(jobs)
    /\ req = NoRequest

Next ==
    \/ \E id \in 1..(Len(jobs) + 1), st \in StatusInputs : update_job_status(id, st)
    \/ calls < MaxCalls /\ \E id \in 1..(Len(jobs) + 1) : match_workers_to_job(id)
    \/ calls < MaxCalls /\ \E id \in 1..(Len(workers) + 1) : match_jobs_to_worker(id)

Spec == Init /\ [][Next]_vars

\* ------------------------------------------------------------------------
\* _score_match applied to one (job row, worker row) pair in both directions
\* ------------------------------------------------------------------------

ProbeJobs ==
    { [job_id |-> 1, skill_required |-> sk, location |-> loc, status |-> "open"] :
        sk  \in {<<>>, S_a, S_ab, S_aa, S_Ab},
        loc \in {<<>>, L_sp, L_k, L_Kr, L_rb, L_rk, L_krba, L_0_0, L_005_0, L_05_0, L_2_0} }

ProbeWorkers ==
    { [worker_id |-> 1, skills |-> sk, location |-> loc, available |-> av] :
        sk  \in {<<>>, S_a, S_b, S_abk},
        loc \in {<<>>, L_k, L_kr, L_k0, L_kcr, L_0_0, L_005_0, L_2_0},
        av  \in {0, 1} }

ProbeInit ==
    /\ workers = <<>>
    /\ jobs = <<>>
    /\ matches = <<>>
    /\ calls = 0
    /\ ret = NoCall
    /\ callers = NoCallers
    /\ parsed = NoParse
    /\ job_seq = Len(jobs)
    /\ req = NoRequest
    /\ \E j \in ProbeJobs, w \in ProbeWorkers :
          probe = [job |-> j, worker |-> w, fwd |-> <<>>, inv |-> <<>>]

\* the call of _score_match in match_job_to_workers
ProbeForward ==
    /\ probe.fwd = <<>>
    /\ probe' = [probe EXCEPT !.fwd = <<ScoreWorkerForJob(probe.job, probe.worker)>>]
    /\ UNCHANGED <<workers, jobs, matches, calls, ret, callers, parsed, job_seq, req>>

\* the call of _score_match in match_worker_to_jobs
ProbeInverse ==
    /\ probe.inv = <<>>
    /\ probe' = [probe EXCEPT !.inv = <<ScoreJobForWorker(probe.worker, probe.job)>>]
    /\ UNCHANGED <<workers, jobs, matches, calls, ret, callers, parsed, job_seq, req>>

ProbeNext == ProbeForward \/ ProbeInverse

ScoreSpec == ProbeInit /\ [][ProbeNext]_vars

\* ------------------------------------------------------------------------
\* Ranking calls repeated against a store that nothing else writes
\* ------------------------------------------------------------------------

MaxReruns == 2

RerunInit ==
    /\ workers = <<WorkerRow(1, W_part), WorkerRow(2, W_full), WorkerRow(3, W_full)>>
    /\ jobs = <<JobRow(1, J_field, "open"), JobRow(2, J_town, "open")>>
    /\ matches = <<>>
    /\ calls = 0
    /\ ret = NoCall
    /\ probe = NoProbe
    /\ callers = NoCallers
    /\ parsed = NoParse
    /\ job_seq = Len(jobs)
    /\ req = NoRequest

RerunNext ==
    \/ calls < MaxReruns /\ \E id \in 1..(Len(jobs) + 1) : match_workers_to_job(id)
    \/ calls < MaxReruns /\ \E id \in 1..(Len(workers) + 1) : match_jobs_to_worker(id)

RerunSpec == RerunInit /\ [][RerunNext]_vars

\* ------------------------------------------------------------------------
\* Two ranking calls side by side on one database file.  Each statement a
\* call sends is one execute_query / fetch_all with its own connection and
\* commit (src/database.py), so a call is its reads followed by one step per
\* INSERT; top_n is the default main.py calls with.
\* ------------------------------------------------------------------------

DefaultTopN == 10

\* the caller has its list: top = scored[:top_n], and the loop is about to start
CallerRanked(p, res, rows) ==
    /\ callers' = [callers EXCEPT ![p] = [pc |-> "insert", res |-> res, rows |-> rows,
                                          next |-> 1, ids |-> <<>>]]
    /\ calls' = calls + 1
    /\ UNCHANGED <<workers, jobs, matches, ret, probe, parsed, job_seq, req>>

CallerRankedWorkers(p, job_row, res) == CallerRanked(p, res, JobMatchRows(job_row, res.top))

CallerRankedJobs(p, worker_row, res) == CallerRanked(p, res, WorkerMatchRows(worker_row, res.top))

\* match_workers_to_job(job_id) up to the persistence loop
CallerRanksWorkers(p, job_id) ==
    /\ callers[p].pc = "idle"
    /\ FetchJob(job_id) # <<>>
    /\ CallerRankedWorkers(p, FetchJob(job_id)[1],
                           Ranked("match_job_to_workers", job_id, DefaultTopN,
                                  ScoredWorkers(FetchJob(job_id)[1], _get_all_workers)))

\* match_jobs_to_worker(worker_id) up to the persistence loop
CallerRanksJobs(p, worker_id) ==
    /\ callers[p].pc = "idle"
    /\ FetchWorker(worker_id) # <<>>
    /\ CallerRankedJobs(p, FetchWorker(worker_id)[1],
                        Ranked("match_worker_to_jobs", worker_id, DefaultTopN,
                               ScoredJobs(FetchWorker(worker_id)[1], _get_all_jobs)))

\* one iteration of the persistence loop: the INSERT commits, and the row
\* gets the next match_id, or it raises and the exception is passed over
CallerInserts(p) ==
    /\ callers[p].pc = "insert"
    /\ callers[p].next <= Len(callers[p].rows)
    /\ \/ /\ matches' = AppendRows(<<callers[p].rows[callers[p].next]>>)
          /\ callers' = [callers EXCEPT ![p].next = @ + 1,
                                        ![p].ids = Append(@, Len(matches'))]
       \/ /\ UNCHANGED matches
          /\ callers' = [callers EXCEPT ![p].next = @ + 1,
                                        ![p].res.failed = @ \cup {callers[p].next}]
    /\ UNCHANGED <<workers, jobs, calls, ret, probe, parsed, job_seq, req>>

\* return top
CallerReturns(p) ==
    /\ callers[p].pc = "insert"
    /\ callers[p].next > Len(callers[p].rows)
    /\ callers' = [callers EXCEPT ![p].pc = "done"]
    /\ UNCHANGED <<workers, jobs, matches, calls, ret, probe, parsed, job_seq, req>>

\* the next step of caller p, whatever it is
CallerStep(p) ==
    \/ \E id \in 1..Len(jobs) : CallerRanksWorkers(p, id)
    \/ \E id \in 1..Len(workers) : CallerRanksJobs(p, id)
    \/ CallerInserts(p)
    \/ CallerReturns(p)

ConcInit ==
    /\ workers = <<WorkerRow(1, W_part), WorkerRow(2, W_full)>>
    /\ jobs = <<JobRow(1, J_field, "open"), JobRow(2, J_town, "open")>>
    /\ matches = <<>>
    /\ calls = 0
    /\ ret = NoCall
    /\ probe = NoProbe
    /\ callers = NoCallers
    /\ parsed = NoParse
    /\ job_seq = Len(jobs)
    /\ req = NoRequest

ConcNext ==
    \/ \E p \in Callers, id \in 1..Len(jobs) : CallerRanksWorkers(p, id)
    \/ \E p \in Callers, id \in 1..Len(workers) : CallerRanksJobs(p, id)
    \/ \E p \in Callers : CallerInserts(p)
    \/ \E p \in Callers : CallerReturns(p)
    \/ \E id \in 1..Len(jobs) : update_job_status(id, "filled")

ConcSpec == ConcInit /\ [][ConcNext]_vars

\* ------------------------------------------------------------------------
\* Ranking calls on a store whose read of the candidate pool may fail
\* ------------------------------------------------------------------------

FaultInit ==
    /\ workers \in WorkerTables
    /\ jobs \in JobTables
    /\ matches = <<>>
    /\ calls = 0
    /\ ret = NoCall
    /\ probe = NoProbe
    /\ callers = NoCallers
    /\ parsed = NoParse
    /\ job_seq = Len(jobs)
    /\ req = NoRequest

FaultNext ==
    \/ calls < MaxCalls /\ \E id \in 1..(Len(jobs) + 1), read_ok \in BOOLEAN :
                              WorkersForJob(id, read_ok)
    \/ calls < MaxCalls /\ \E id \in 1..(Len(workers) + 1), read_ok \in BOOLEAN :
                              JobsForWorker(id, read_ok)

FaultSpec == FaultInit /\ [][FaultNext]_vars

\* ------------------------------------------------------------------------
\* The job board: job_management operations next to the ranking calls.
\* A job row keeps the columns the engine reads; the title, the duration and
\* the pay rate of a form are the texts the operation tests before it writes.
\* ------------------------------------------------------------------------

MaxJobs == 1

T_title == <<"t">>
T_days  == <<"3">>
T_pay   == <<"1">>
S_NA    == <<"N", "/", "A">>

\* the status typed into a form, lower-cased, "open" when left blank
StatusOrOpen(status) == IF status = "" THEN "open" ELSE StatusLower(status)

\* all([title, skill_required, location, duration, pay_rate])
AllFieldsGiven(form) ==
    /\ strip(form.title) # <<>>
    /\ strip(form.skill_required) # <<>>
    /\ strip(form.location) # <<>>
    /\ strip(form.duration) # <<>>
    /\ strip(form.pay_rate) # <<>>

\* the form is turned down: the status test, then the required-fields test
PostRejected(form) == ~ValidStatus(StatusOrOpen(form.status)) \/ ~AllFieldsGiven(form)

\* the row INSERT INTO jobs writes for the form
PostedRow(form) ==
    [job_id |-> job_seq + 1, skill_required |-> strip(form.skill_required),
     location |-> strip(form.location), status |-> StatusOrOpen(form.status)]

\* job_management.post_job(farmer_id) / _add_job_with_farmer
post_job(form) ==
    /\ PostRejected(form) \/ job_seq < MaxJobs
    /\ IF PostRejected(form)
       THEN UNCHANGED <<jobs, job_seq>>
       ELSE /\ jobs' = Append(jobs, PostedRow(form))
            /\ job_seq' = job_seq + 1
    /\ req' = Request("post_job", StatusOrOpen(form.status), PostRejected(form))
    /\ ret' = NoCall
    /\ UNCHANGED <<workers, matches, calls, probe, callers, parsed>>

\* x.strip() or current
TypedOr(typed, current) == IF strip(typed) # <<>> THEN strip(typed) ELSE current

\* status_input if status_input in ["open", "closed"] else current_status
StatusTypedOr(status_input, current_status) ==
    IF StatusLower(status_input) \in {"open", "closed"}
    THEN StatusLower(status_input) ELSE current_status

\* the row UPDATE jobs SET ... writes over row j
UpdatedRow(j, form) ==
    [j EXCEPT !.skill_required = TypedOr(form.skill_required,
                                         IF j.skill_required # <<>> THEN j.skill_required
                                                                    ELSE S_NA),
              !.location = TypedOr(form.location, j.location),
              !.status = StatusTypedOr(form.status, j.status)]

\* the update stops before the UPDATE: no such job, or a pay rate that is
\* not a number
UpdateRejected(job_id, form) ==
    \/ FetchJob(job_id) = <<>>
    \/ strip(form.pay_rate) # <<>> /\ ~float(strip(form.pay_rate)).ok

\* job_management.update_job()
update_job(job_id, form) ==
    /\ IF UpdateRejected(job_id, form)
       THEN UNCHANGED jobs
       ELSE jobs' = [i \in 1..Len(jobs) |->
                        IF jobs[i].job_id = job_id THEN UpdatedRow(jobs[i], form)
                                                   ELSE jobs[i]]
    /\ req' = Request("update_job", "", UpdateRejected(job_id, form))
    /\ ret' = NoCall
    /\ UNCHANGED <<workers, matches, calls, probe, callers, parsed, job_seq>>

\* job_management.delete_job(job_id): DELETE FROM jobs WHERE job_id = ?
delete_job(job_id, confirm) ==
    /\ IF FetchJob(job_id) = <<>> \/ confirm # "y"
       THEN UNCHANGED jobs
       ELSE jobs' = SelectSeq(jobs, LAMBDA j : j.job_id # job_id)
    /\ req' = Request("delete_job", "", FetchJob(job_id) = <<>> \/ confirm # "y")
    /\ ret' = NoCall
    /\ UNCHANGED <<workers, matches, calls, probe, callers, parsed, job_seq>>

\* the forms typed into post_job
PostForms ==
    { [title |-> T_title, skill_required |-> sk, location |-> L_k, duration |-> T_days,
       pay_rate |-> T_pay, status |-> st] :
        sk \in {L_sp, S_a}, st \in {"", "Filled", "pending"} }

\* the forms typed into update_job
UpdateForms ==
    { [skill_required |-> sk, location |-> <<>>, pay_rate |-> pay, status |-> st] :
        sk \in {<<>>}, pay \in {<<>>, L_k}, st \in {"closed", "Filled"} }

JobInit ==
    /\ workers = <<WorkerRow(1, W_full)>>
    /\ jobs = <<>>
    /\ matches = <<>>
    /\ calls = 0
    /\ ret = NoCall
    /\ probe = NoProbe
    /\ callers = NoCallers
    /\ parsed = NoParse
    /\ job_seq = Len(jobs)
    /\ req = NoRequest

JobNext ==
    \/ \E form \in PostForms : post_job(form)
    \/ \E id \in 1..job_seq, form \in UpdateForms : update_job(id, form)
    \/ \E id \in 1..job_seq, st \in StatusInputs : update_job_status(id, st)
    \/ \E id \in 1..job_seq, confirm \in {"y", "n"} : delete_job(id, confirm)
    \/ calls < MaxCalls /\ \E id \in 1..job_seq : match_workers_to_job(id)
    \/ calls < MaxCalls /\ \E id \in 1..Len(workers) : match_jobs_to_worker(id)

JobSpec == JobInit /\ [][JobNext]_vars

\* ------------------------------------------------------------------------
\* parse_latlon applied to one argument
\* ------------------------------------------------------------------------

MaxLen == 4

ParseAlphabet == {"1", "-", ".", ",", " ", "k"}

T_coord  == <<"-", "1", ".", "9", "5", ",", "3", "0", ".", "0", "6">>
T_kigali == <<"K", "i", "g", "a", "l", "i", ",", " ", "R", "w", "a", "n", "d", "a">>

\* every text of at most MaxLen characters, and the two texts of the tests
ParseTexts ==
    UNION {[1..n -> ParseAlphabet] : n \in 0..MaxLen} \cup {T_coord, T_kigali}

\* the arguments: strings, None and a number
ParseInputs ==
    {[kind |-> "str", text |-> t] : t \in ParseTexts}
        \cup {[kind |-> k, text |-> <<>>] : k \in {"none", "int"}}

ParseInit ==
    /\ workers = <<>>
    /\ jobs = <<>>
    /\ matches = <<>>
    /\ calls = 0
    /\ ret = NoCall
    /\ probe = NoProbe
    /\ callers = NoCallers
    /\ job_seq = 0
    /\ req = NoRequest
    /\ \E v \in ParseInputs : parsed = [input |-> v, out |-> <<>>]

ParseCall ==
    /\ parsed.out = <<>>
    /\ parsed' = [parsed EXCEPT !.out = <<ParseValue(parsed.input)>>]
    /\ UNCHANGED <<workers, jobs, matches, calls, ret, probe, callers, job_seq, req>>

ParseNext == ParseCall

ParseSpec == ParseInit /\ [][ParseNext]_vars

\* ------------------------------------------------------------------------
\* Properties
\* ------------------------------------------------------------------------

Forward == ret.found /\ ret.op = "match_job_to_workers"
Inverse == ret.found /\ ret.op = "match_worker_to_jobs"

TopIds == {ret.top[i].id : i \in 1..Len(ret.top)}

\* position of the candidate with this id in the pool the call read
PoolIndex(id) == CHOOSE i \in 1..Len(ret.scored) : ret.scored[i].id = id

\* the pool the store holds for the direction of the last call
StorePool == IF Forward THEN _get_all_workers ELSE _get_all_jobs

StorePoolIds ==
    IF Forward THEN {workers[i].worker_id : i \in {k \in 1..Len(workers) : workers[k].available = 1}}
    ELSE {jobs[i].job_id : i \in {k \in 1..Len(jobs) : jobs[k].status = "open"}}

\* C1: in both ranking directions the final score of every scored and every
\* returned candidate lies between 0.0 and 1.0.
C1_ScoreInUnitInterval ==
    /\ \A i \in 1..Len(ret.top) :
          FLe(F0, ret.top[i].score) /\ FLe(ret.top[i].score, F1)
    /\ \A i \in 1..Len(ret.scored) :
          FLe(F0, ret.scored[i].score) /\ FLe(ret.scored[i].score, F1)

C1_Witness ==
    /\ Inverse
    /\ Len(ret.top) >= 2
    /\ FLt(ret.top[2].score, ret.top[1].score)
    /\ FLt(F0, ret.top[2].score)

\* C2: a worker whose available flag is false in the store never appears in
\* the list match_job_to_workers returns.
C2_UnavailableNeverReturned ==
    Forward =>
        \A i \in 1..Len(workers) :
            workers[i].available = 0 => workers[i].worker_id \notin TopIds

C2_Witness ==
    /\ Forward
    /\ Len(ret.top) >= 1
    /\ ret.top_n > Len(ret.top)
    /\ \E i \in 1..Len(workers) :
          /\ workers[i].available = 0
          /\ workers[i].skills = S_ab
          /\ workers[i].location = L_0_0

\* C3: for one (job, worker) pair, job open and worker available, the score
\* computed in the workers-for-a-job direction equals the score computed in
\* the jobs-for-a-worker direction.
C3_SameScoreBothDirections ==
    (/\ probe.fwd # <<>>
     /\ probe.inv # <<>>
     /\ probe.job.status = "open"
     /\ probe.worker.available = 1)
    => probe.fwd[1].score = probe.inv[1].score

\* the proximity branch the two location strings select
ExpectedBranch(job_location, worker_location) ==
    IF parse_latlon(job_location).ok /\ parse_latlon(worker_location).ok THEN "distance"
    ELSE IF job_location # <<>> /\ worker_location # <<>> THEN "text"
    ELSE "neutral"

\* C4: in both directions the proximity branch is the geodesic one only when
\* the job's and the worker's location both parse as coordinates, the lexical
\* one when one of them does not parse and both are non-empty, and the neutral
\* one otherwise.
C4_BranchFromBothLocations ==
    /\ probe.fwd # <<>> =>
          probe.fwd[1].branch = ExpectedBranch(probe.job.location, probe.worker.location)
    /\ probe.inv # <<>> =>
          probe.inv[1].branch = ExpectedBranch(probe.job.location, probe.worker.location)

\* C5: the returned list is ordered by final score descending, and two
\* candidates with equal score keep the order they had in the pool.
C5_SortedDescendingStable ==
    \A i, j \in 1..Len(ret.top) :
        i < j =>
            /\ FLe(ret.top[j].score, ret.top[i].score)
            /\ ret.top[i].score = ret.top[j].score
                  => PoolIndex(ret.top[i].id) < PoolIndex(ret.top[j].id)

C5_Witness ==
    /\ Forward
    /\ Len(ret.top) = 3
    /\ ret.top[1].score = ret.top[2].score
    /\ FLt(ret.top[3].score, ret.top[2].score)
    /\ PoolIndex(ret.top[3].id) = 1

\* C6: a ranking call scores every member of the pool and returns exactly
\* min(top_n, pool size) of them: distinct pool members, and every member
\* left out scores no higher than every returned one.
C6_ReturnsBestTopN ==
    ret.found =>
        /\ {ret.scored[i].id : i \in 1..Len(ret.scored)} = StorePoolIds
        /\ Len(ret.scored) = Len(StorePool)
        /\ Len(ret.top) = FMin2(ret.top_n, Len(StorePool))
        /\ Cardinality(TopIds) = Len(ret.top)
        /\ \A i \in 1..Len(ret.top) : ret.top[i] = ret.scored[PoolIndex(ret.top[i].id)]
        /\ \A i \in 1..Len(ret.scored) :
              ret.scored[i].id \notin TopIds =>
                  \A k \in 1..Len(ret.top) : FLe(ret.scored[i].score, ret.top[k].score)

C6_Witness ==
    /\ Forward
    /\ ret.top_n = 2
    /\ Len(ret.scored) = 3
    /\ Len(ret.top) = 2
    /\ \E i \in 1..Len(ret.scored) :
          ret.scored[i].id \notin TopIds /\ FLt(ret.scored[i].score, ret.top[2].score)

\* C7: match_worker_to_jobs returns only jobs whose status is open in the
\* store; a filled or closed job never appears.
C7_OnlyOpenJobsReturned ==
    Inverse =>
        \A i \in 1..Len(jobs) :
            jobs[i].status # "open" => jobs[i].job_id \notin TopIds

C7_Witness ==
    /\ Inverse
    /\ Len(ret.top) >= 1
    /\ ret.top_n > Len(ret.top)
    /\ \E i \in 1..Len(jobs) : jobs[i].status = "closed" /\ jobs[i].skill_required = S_ab

\* the ratio over sets of normalised tokens
SetSkillScore(required, candidate) ==
    IF SeqToSet(required) = {} THEN F05
    ELSE FDivInt(FOfInt(Cardinality(SeqToSet(required) \cap SeqToSet(candidate))),
                 Cardinality(SeqToSet(required)))

\* C8: the skill score is 0.5 when the job requires no skill and otherwise
\* |required /\ candidate| / |required| over the sets of normalised tokens.
C8_SkillScoreIsSetRatio ==
    /\ probe.fwd # <<>> =>
          probe.fwd[1].skill = SetSkillScore(SkillList(probe.job.skill_required),
                                             SkillList(probe.worker.skills))
    /\ probe.inv # <<>> =>
          probe.inv[1].skill = SetSkillScore(SkillList(probe.job.skill_required),
                                             SkillList(probe.worker.skills))

\* the tokens of a list, each once, in order of first occurrence
Dedup(q) ==
    LET F[i \in 0..Len(q)] ==
            IF i = 0 THEN <<>>
            ELSE IF q[i] \in SeqToSet(F[i - 1]) THEN F[i - 1] ELSE Append(F[i - 1], q[i])
    IN  F[Len(q)]

\* C9: a job that repeats a required skill gets the same skill score against
\* a worker as the job that lists the skill once.
C9_DuplicatesDoNotCount ==
    probe.fwd # <<>> =>
        probe.fwd[1].skill =
            SkillScore(Dedup(SkillList(probe.job.skill_required)),
                       SkillList(probe.worker.skills)).score

\* an available worker holding every required skill within 10 km of the job
PerfectPair ==
    /\ probe.worker.available = 1
    /\ SkillList(probe.job.skill_required) # <<>>
    /\ SeqToSet(SkillList(probe.job.skill_required))
          \subseteq SeqToSet(SkillList(probe.worker.skills))
    /\ parse_latlon(probe.job.location).ok
    /\ parse_latlon(probe.worker.location).ok
    /\ HaversineMetres(parse_latlon(probe.job.location), parse_latlon(probe.worker.location))
          <= 10000

\* C10: an available worker holding all required skills within 10 km of the
\* job gets the final score 1.0, recorded as 100.
C10_PerfectPairScoresOne ==
    (probe.fwd # <<>> /\ PerfectPair) =>
        /\ probe.fwd[1].score = F1
        /\ ScorePercent(probe.fwd[1].score) = 100

\* the results computed for the pair so far, in either direction
ProbeResults == SeqToSet(probe.fwd \o probe.inv)

\* both locations of the pair are coordinates, and the distance between them
BothCoordinates ==
    parse_latlon(probe.job.location).ok /\ parse_latlon(probe.worker.location).ok

DistanceOfPair ==
    haversine_km(parse_latlon(probe.worker.location), parse_latlon(probe.job.location))

\* 1.0 up to 10 km, 1 - (d - 10)/90 up to 100 km, 0.0 beyond
CurveOfDistance(d) ==
    IF FLe(d, F10) THEN F1
    ELSE IF FLe(d, F100) THEN FSub(F1, FDivInt(FSub(d, F10), 90))
    ELSE F0

\* C11: when the job's and the worker's location are both coordinates, the
\* proximity score of the pair is the piecewise-linear curve of the distance
\* between the two locations, in whichever direction the pair is scored.
C11_ProximityFollowsDistance ==
    BothCoordinates =>
        \A r \in ProbeResults : r.prox = CurveOfDistance(DistanceOfPair)

\* the two location strings as match_location_text compares them
TextA == lower(strip(probe.worker.location))
TextB == lower(strip(probe.job.location))
TextContained == contains(TextA, TextB) \/ contains(TextB, TextA)
TokensA == SeqToSet(split_ws(TextA))
TokensB == SeqToSet(split_ws(TextB))

\* C12: on two non-empty location strings the text match is 1.0 for a
\* case-insensitive exact match after trimming, 0.8 when one contains the
\* other, min(0.7, common tokens / larger token count) when they share a
\* token, and 0.3 otherwise; containment scores above 0.5 and strings that
\* share nothing score below 0.5.
C12_TextMatchScores ==
    \A r \in ProbeResults :
        r.branch = "text" =>
            /\ TextA = TextB => r.prox = F1
            /\ TextA # TextB /\ TextContained => r.prox = F08 /\ FLt(F05, r.prox)
            /\ TextA # TextB /\ ~TextContained /\ TokensA \cap TokensB # {} =>
                   r.prox = FMin(F07, FDivInt(FOfInt(Cardinality(TokensA \cap TokensB)),
                                              IntMax(Cardinality(TokensA), Cardinality(TokensB))))
            /\ TextA # TextB /\ ~TextContained /\ TokensA \cap TokensB = {} =>
                   r.prox = F03 /\ FLt(r.prox, F05)

\* a pair scored on the text branch in every arm is reachable; this one
\* shares both tokens in another order, where the cap of 0.7 binds
C12_Witness ==
    /\ probe.fwd # <<>>
    /\ probe.fwd[1].branch = "text"
    /\ TextA # TextB /\ ~TextContained
    /\ TokensA = TokensB
    /\ probe.fwd[1].prox = F07

\* C13: when the job's location or the worker's location is empty, the
\* proximity score is the neutral 0.5 and the reasons say that no location
\* information was available.
C13_EmptyLocationIsNeutral ==
    (probe.job.location = <<>> \/ probe.worker.location = <<>>) =>
        \A r \in ProbeResults :
            /\ r.prox = F05
            /\ \E i \in 1..Len(r.reasons) :
                   r.reasons[i] = "no location info (proximity neutral)"

\* C14: the availability sub-score is 1.0 for a pair scored in the
\* jobs-for-a-worker direction; in the workers-for-a-job direction it is 1.0
\* when the worker's available flag is set and 0.0 when it is not.
C14_AvailabilitySubScore ==
    /\ probe.inv # <<>> => probe.inv[1].avail = F1
    /\ probe.fwd # <<>> =>
           probe.fwd[1].avail = (IF probe.worker.available = 1 THEN F1 ELSE F0)

C14_Witness ==
    /\ probe.inv # <<>>
    /\ probe.fwd # <<>>
    /\ probe.worker.available = 0
    /\ probe.fwd[1].avail = F0
    /\ probe.inv[1].avail = F1

\* the matches rows the last ranking call appended
CallRows == SubSeq(matches, ret.first + 1, Len(matches))

\* the row of the i-th returned result: job id, worker id, round(score * 100)
ExpectedRow(i) ==
    [job_id      |-> IF Forward THEN ret.anchor ELSE ret.top[i].id,
     worker_id   |-> IF Forward THEN ret.top[i].id ELSE ret.anchor,
     match_score |-> FRoundToInt(FMul(ret.top[i].score, F100))]

\* the positions of the returned list whose INSERT did not raise
KeptPositions == {i \in 1..Len(ret.top) : i \notin ret.failed}

\* C15: when no insert fails, a ranking call inserts exactly one matches row
\* per returned result, in order, and none for the candidates cut by top_n;
\* each row carries the job id, the worker id and round(score * 100), a whole
\* number in 0..100.
C15_OneRowPerResult ==
    (Forward \/ Inverse) /\ ret.failed = {} =>
        /\ Len(CallRows) = Len(ret.top)
        /\ \A i \in 1..Len(ret.top) :
               /\ CallRows[i] = ExpectedRow(i)
               /\ CallRows[i].match_score \in 0..100

C15_Witness ==
    /\ Forward
    /\ ret.failed = {}
    /\ Len(ret.top) >= 2
    /\ Len(ret.scored) > Len(ret.top)
    /\ Len(CallRows) = Len(ret.top)
    /\ \E i \in 1..Len(CallRows) : CallRows[i].match_score = 100

\* C16: an insert that fails is suppressed row by row: the call returns the
\* same ranked list as when every insert succeeds, and the rows of all the
\* results whose insert did not fail are in the table, in order.
C16_InsertFailureSuppressed ==
    (Forward \/ Inverse) =>
        /\ ret.top = SliceTo(SortByScoreDesc(ret.scored), ret.top_n)
        /\ Len(CallRows) = Cardinality(KeptPositions)
        /\ \A i \in KeptPositions :
               CallRows[Cardinality({k \in KeptPositions : k <= i})] = ExpectedRow(i)

C16_Witness ==
    /\ Forward
    /\ ret.failed = {1}
    /\ Len(ret.top) = 3
    /\ Len(CallRows) = 2
    /\ CallRows[1].worker_id = ret.top[2].id

\* C20: a ranking call in either direction leaves the jobs and the workers
\* tables as they were; the only change to the store is matches rows appended
\* after the rows already there.
C20_RankingLeavesTablesAlone ==
    [][calls' # calls =>
          /\ workers' = workers
          /\ jobs' = jobs
          /\ Len(matches') >= Len(matches)
          /\ SubSeq(matches', 1, Len(matches)) = matches]_vars

C20_Witness ==
    /\ Inverse
    /\ Len(matches) > ret.first
    /\ Len(jobs) = 2
    /\ Len(ret.top) = 2

\* C17: match records are append-only and not deduplicated: every ranking
\* call leaves the rows already in the matches table in place and unchanged,
\* and adds a new row for each returned result whose insert succeeded, also
\* when equal rows of an earlier run of the same ranking are there.
C17_MatchesAppendOnly ==
    [][/\ Len(matches') >= Len(matches)
       /\ SubSeq(matches', 1, Len(matches)) = matches
       /\ ret'.found =>
              Len(matches') = Len(matches) + Len(ret'.top) - Cardinality(ret'.failed)]_vars

\* the second run of a ranking has added rows equal to rows of the first
C17_Witness ==
    /\ calls = 2
    /\ Forward
    /\ ret.first >= 2
    /\ Len(CallRows) >= 2
    /\ \A k \in 1..Len(CallRows) : \E i \in 1..ret.first : matches[i] = CallRows[k]

\* C18: match_job_to_workers called again for the same job and top_n, with
\* nothing done to the store in between but the inserts of the first call,
\* returns the same candidates in the same order with the same scores.
C18_RerunReturnsSameRanking ==
    [][(/\ ret.found /\ ret.op = "match_job_to_workers"
        /\ ret'.found /\ ret'.op = "match_job_to_workers"
        /\ ret'.anchor = ret.anchor
        /\ ret'.top_n = ret.top_n) => ret'.top = ret.top]_vars

\* the second of two calls for one job, after the first has left rows for
\* every candidate it returned
C18_Witness ==
    /\ calls = 2
    /\ Forward
    /\ Len(ret.top) = 2
    /\ ret.first = 2
    /\ \A i \in 1..ret.first :
           matches[i].job_id = ret.anchor /\ matches[i].worker_id = ret.top[i].id

\* both side-by-side calls have returned, and they ranked for the same anchor
BothReturned == \A p \in Callers : callers[p].pc = "done"

SameAnchor ==
    /\ callers[1].res.op = callers[2].res.op
    /\ callers[1].res.anchor = callers[2].res.anchor

\* the rows of caller p whose INSERT did not raise, in loop order
KeptRowsOf(p) ==
    SelectSeq([k \in 1..Len(callers[p].rows) |->
                   [row |-> callers[p].rows[k], kept |-> k \notin callers[p].res.failed]],
              LAMBDA e : e.kept)

\* the ids of the pool a caller scored
ScoredIds(p) == {callers[p].res.scored[i].id : i \in 1..Len(callers[p].res.scored)}

\* the ids the pool query returns on the store as it is now
PoolIdsNow(p) ==
    IF callers[p].res.op = "match_job_to_workers"
    THEN {_get_all_workers[i].worker_id : i \in 1..Len(_get_all_workers)}
    ELSE {_get_all_jobs[i].job_id : i \in 1..Len(_get_all_jobs)}

\* C19: two ranking calls for the same anchor whose statements interleave on
\* one store both run to their return without waiting for each other, and the
\* matches table ends with the rows of both: every row whose INSERT did not
\* raise is there under a match_id of its own, each call's rows in that call's
\* order, nothing else, so with no failed INSERT the table holds as many rows
\* as the two returned lists together; each call returns the whole pool it
\* read, sorted by score descending.
C19_InterleavedCallsBothAppend ==
    /\ \A p \in Callers :
           callers[p].pc = "insert" => ENABLED (CallerInserts(p) \/ CallerReturns(p))
    /\ BothReturned /\ SameAnchor =>
           /\ Len(matches) = Len(callers[1].ids) + Len(callers[2].ids)
           /\ \A i \in 1..Len(callers[1].ids), j \in 1..Len(callers[2].ids) :
                  callers[1].ids[i] # callers[2].ids[j]
           /\ \A p \in Callers :
                  /\ Len(callers[p].rows) = Len(callers[p].res.top)
                  /\ Len(callers[p].ids) = Len(KeptRowsOf(p))
                  /\ Len(callers[p].ids) = Len(callers[p].res.top) - Cardinality(callers[p].res.failed)
                  /\ \A k \in 1..Len(callers[p].ids) :
                         /\ callers[p].ids[k] \in 1..Len(matches)
                         /\ matches[callers[p].ids[k]] = KeptRowsOf(p)[k].row
                         /\ k > 1 => callers[p].ids[k - 1] < callers[p].ids[k]
                  /\ Len(callers[p].res.top) = Len(callers[p].res.scored)
                  /\ {callers[p].res.top[i] : i \in 1..Len(callers[p].res.top)}
                         = {callers[p].res.scored[i] : i \in 1..Len(callers[p].res.scored)}
                  /\ \A i, j \in 1..Len(callers[p].res.top) :
                         i < j => FLe(callers[p].res.top[j].score, callers[p].res.top[i].score)
                  /\ PoolIdsNow(p) \subseteq ScoredIds(p)

\* both calls rank the jobs for worker 2, a job is filled between their reads,
\* and their INSERTs alternate
C19_Witness ==
    /\ BothReturned /\ SameAnchor
    /\ callers[1].res.op = "match_worker_to_jobs"
    /\ callers[1].res.anchor = 2
    /\ Len(callers[1].res.top) = 2
    /\ Len(callers[2].res.top) = 1
    /\ callers[1].ids = <<1, 3>>
    /\ callers[2].ids = <<2>>
    /\ Len(matches) = 3

\* C28: in the lexical fallback two location strings that share at least one
\* whitespace-delimited token score at least 0.3, the score of two strings
\* that share none.
C28_SharedTokenNotBelowDisjoint ==
    \A r \in ProbeResults :
        r.branch = "text" /\ TokensA \cap TokensB # {} => FLe(F03, r.prox)

\* a location string is whitespace-only
WhitespaceOnly(loc) == loc # <<>> /\ strip(loc) = <<>>

\* C29: a pair in which the job's or the worker's location is made only of
\* whitespace gets the neutral proximity 0.5, as when that location is empty.
C29_WhitespaceLocationIsMissing ==
    (WhitespaceOnly(probe.job.location) \/ WhitespaceOnly(probe.worker.location)) =>
        \A r \in ProbeResults : r.prox = F05 /\ r.branch = "neutral"

\* the anchor id of the call that has just returned is in no row of its table
AnchorMissing ==
    IF ret'.op = "match_job_to_workers"
    THEN \A i \in 1..Len(jobs) : jobs[i].job_id # ret'.anchor
    ELSE \A i \in 1..Len(workers) : workers[i].worker_id # ret'.anchor

\* C21: match_workers_to_job for a job id that is not in the store, and
\* match_jobs_to_worker for a worker id that is not in the store, end with the
\* not-found outcome: no candidate is scored, nothing is returned as a ranking
\* and the matches table is as before; an id that is in the store is found.
C21_MissingAnchorNotFound ==
    [][calls' # calls =>
          /\ AnchorMissing =>
                 /\ ~ret'.found
                 /\ ret'.scored = <<>>
                 /\ ret'.top = <<>>
                 /\ matches' = matches
          /\ ~AnchorMissing => ret'.found]_vars

\* a call for a missing job id made when the table already holds rows
C21_Witness ==
    /\ ret.op = "match_job_to_workers"
    /\ ~ret.found
    /\ ret.anchor = Len(jobs) + 1
    /\ calls = 2
    /\ Len(matches) >= 2

\* C26: every matches row a ranking call inserts pairs a job whose status is
\* open with a worker whose available flag is set in the store the call read,
\* for the anchor of the call as for the candidates.
C26_RowsPairOpenJobAvailableWorker ==
    [][calls' # calls =>
          \A k \in (Len(matches) + 1)..Len(matches') :
              /\ \E j \in 1..Len(jobs) :
                     jobs[j].job_id = matches'[k].job_id /\ jobs[j].status = "open"
              /\ \E w \in 1..Len(workers) :
                     workers[w].worker_id = matches'[k].worker_id /\ workers[w].available = 1]_vars

\* C30: the rows one ranking call inserts are in rank order: their match_score
\* values never increase from one inserted row to the next, also when INSERTs
\* in between raised.
C30_InsertedScoresNonIncreasing ==
    (Forward \/ Inverse) =>
        \A i, j \in 1..Len(CallRows) :
            i < j => CallRows[j].match_score <= CallRows[i].match_score

\* the second of three INSERTs raised; the rows of the first and the third
\* result are in the table, the better one first
C30_Witness ==
    /\ Forward
    /\ Len(ret.top) = 3
    /\ ret.failed = {2}
    /\ Len(CallRows) = 2
    /\ CallRows[1].worker_id = ret.top[1].id
    /\ CallRows[2].worker_id = ret.top[3].id
    /\ CallRows[2].match_score < CallRows[1].match_score

\* the reason texts of a result
ReasonsOf(r) == SeqToSet(r.reasons)

\* one of the two locations of the pair is not a coordinate
SomeLocationUnparsed ==
    ~parse_latlon(probe.job.location).ok \/ ~parse_latlon(probe.worker.location).ok

\* C22: every scored item carries a non-empty reasons list and a score in
\* 0..1 whatever the data; a location that does not parse as a coordinate only
\* selects the lexical fallback (both strings non-empty) or the neutral 0.5
\* (one of them empty), and a job without required skills only selects the
\* neutral skill score 0.5, each with its reason recorded.
C22_MalformedInputDegrades ==
    \A r \in ProbeResults :
        /\ r.reasons # <<>>
        /\ FLe(F0, r.score) /\ FLe(r.score, F1)
        /\ SomeLocationUnparsed =>
               IF probe.job.location # <<>> /\ probe.worker.location # <<>>
               THEN /\ r.branch = "text"
                    /\ "location text match" \in ReasonsOf(r)
               ELSE /\ r.branch = "neutral"
                    /\ r.prox = F05
                    /\ "no location info (proximity neutral)" \in ReasonsOf(r)
        /\ SkillList(probe.job.skill_required) = <<>> =>
               /\ r.skill = F05
               /\ "no required skills (neutral)" \in ReasonsOf(r)

\* the text has exactly one comma, and the parts before and after it
OneComma(text) == Cardinality({i \in 1..Len(text) : text[i] = ","}) = 1

CommaAt(text) == CHOOSE i \in 1..Len(text) : text[i] = ","

BeforeComma(text) == SubSeq(text, 1, CommaAt(text) - 1)

AfterComma(text) == SubSeq(text, CommaAt(text) + 1, Len(text))

\* a decimal literal without its sign: digits with at most one point
IsUnsignedNumber(u) ==
    /\ \A i \in 1..Len(u) : u[i] \in Digits \cup {"."}
    /\ Cardinality({i \in 1..Len(u) : u[i] = "."}) <= 1
    /\ \E i \in 1..Len(u) : u[i] \in Digits

IsSignedNumber(u) ==
    IF u # <<>> /\ u[1] \in {"+", "-"} THEN IsUnsignedNumber(Tail(u)) ELSE IsUnsignedNumber(u)

\* the part reads as a number once the blanks around it are dropped
IsNumberText(t) == IsSignedNumber(strip(t))

\* C23: parse_latlon yields a coordinate exactly when its argument is a text
\* with one comma whose two parts both read as numbers, and None for every
\* other argument; "-1.95,30.06" gives lat -1.95, lon 30.06 and
\* "Kigali, Rwanda" gives None.
C23_ParseLatLonExactlyTwoNumbers ==
    parsed.out # <<>> =>
        /\ parsed.out[1].ok <=>
               /\ parsed.input.kind = "str"
               /\ OneComma(parsed.input.text)
               /\ IsNumberText(BeforeComma(parsed.input.text))
               /\ IsNumberText(AfterComma(parsed.input.text))
        /\ ~parsed.out[1].ok => parsed.out[1] = None
        /\ parsed.input.text = T_coord =>
               parsed.out[1] = [ok |-> TRUE, lat |-> 0 - 195, lon |-> 3006]
        /\ parsed.input.text = T_kigali => parsed.out[1] = None

C23_Witness ==
    /\ parsed.input.text = T_coord
    /\ parsed.out # <<>>
    /\ parsed.out[1].ok
    /\ parsed.out[1].lat = 0 - 195
    /\ parsed.out[1].lon = 3006

\* C25: when the read of the candidate pool fails, the ranking call scores
\* nothing, returns the empty list and inserts no matches row, which is the
\* outcome of a call that finds the pool empty.
C25_FailedPoolReadIsEmptyPool ==
    [][calls' # calls /\ ~ret'.read_ok =>
          /\ ret'.found
          /\ ret'.scored = <<>>
          /\ ret'.top = <<>>
          /\ ret'.failed = {}
          /\ matches' = matches]_vars

\* the read failed for a job whose pool in the store holds three workers
C25_Witness ==
    /\ Forward
    /\ ~ret.read_ok
    /\ Len(_get_all_workers) = 3
    /\ ret.top_n = 3
    /\ ret.top = <<>>
    /\ matches = <<>>

\* C24: after any sequence of post_job, update_job, update_job_status and
\* delete_job every stored job's status is open, filled or closed; a post_job
\* or update_job_status request that carries any other status is turned down
\* and leaves the jobs table as it was.
C24_StoredStatusAlwaysValid ==
    [][/\ \A i \in 1..Len(jobs') : jobs'[i].status \in Statuses
       /\ (/\ req'.op \in {"post_job", "update_job_status"}
           /\ req'.status \notin Statuses) => req'.rejected /\ jobs' = jobs]_vars

\* a post_job form with the status "pending" has just been turned down, on a
\* table that holds a job posted as filled and closed since
C24_Witness ==
    /\ req.op = "post_job"
    /\ req.status = "pending"
    /\ req.rejected
    /\ Len(jobs) = 1
    /\ jobs[1].status = "closed"
    /\ job_seq = 1

\* C27: every matches row refers to a job that is in the jobs table, after
\* any sequence of ranking calls and job_management operations.
C27_MatchRowsPointAtStoredJobs ==
    \A k \in 1..Len(matches) : \E j \in 1..Len(jobs) : jobs[j].job_id = matches[k].job_id

====
